---- MODULE Spec2Model ----
(***************************************************************************)
(* Color-mode engine of xstyled (packages/core/src/colorModes.tsx).        *)
(*                                                                         *)
(* One color-mode scope (ColorModeProvider / useColorModeState) is         *)
(* modelled together with its environment: localStorage, the system        *)
(* color-scheme preference, the prefers-color-scheme MediaQueryLists and   *)
(* the class list of the target element.                                   *)
(*                                                                         *)
(* React's scheduling is modelled as follows.  A render pass commits the   *)
(* values of the state cells (nextMode, nextSystemMode) into the render    *)
(* closure (mode, systemMode) and runs, in declaration order, the layout   *)
(* effects whose dependencies changed, then the passive effect.  A state   *)
(* update that leaves the cell equal to the rendered value bails out (no   *)
(* render pass).  Re-renders caused by layout effects are synchronous, so  *)
(* no outside event is taken while a render pass is pending.  Updates      *)
(* made outside React's own event handlers (the MediaQueryList change      *)
(* handlers) are rendered one by one, as in React 16/17.  The passive       *)
(* effect of useSystemMode is flushed with the commit of its render: React *)
(* flushes it before the next render and it touches the listeners only.    *)
(* window.matchMedia and MediaQueryList.addEventListener are taken to      *)
(* exist (a browser that has a system color-scheme preference).            *)
(***************************************************************************)
EXTENDS Integers, Sequences, FiniteSets, TLC

\* JavaScript null, as returned by localStorage.getItem and used for Mode.
Null == "null"
\* JavaScript undefined, for optional fields of the theme.
Undefined == "undefined"

STORAGE_KEY == "xstyled-color-mode"
COLOR_MODE_CLASS_PREFIX == "xstyled-color-mode-"
SYSTEM_MODES == <<"light", "dark">>

\* Mode names used as persisted values and as arguments of setMode.
\* "sepia" is a name no theme of Themes declares.
ModeNames == {"default", "light", "dark", "sepia"}

\* Number of times the scope may be mounted in one behaviour.
MaxMounts == 2
\* Cap on the render passes counted after one event.
MaxPasses == 4

\* The themes the scope is mounted with.
Themes ==
  [ modes : {{}, {"dark"}, {"light"}, {"light", "dark"}},
    useCustomProperties : {Undefined, "true", "false"},
    useColorSchemeMediaQuery : {Undefined, "true", "false"},
    initialColorModeName : {Undefined, "light"},
    defaultColorModeName : {Undefined, "dark"} ]

\* theme.colors without its modes key, and theme.colors.modes of the modes a
\* theme declares: "light" overrides one token, "dark" both.
Tokens == {"primary", "text"}
ThemeColors == [ primary |-> "#base-primary", text |-> "#base-text" ]
ModeColors ==
  [ light |-> [ primary |-> "#light-primary" ],
    dark |-> [ primary |-> "#dark-primary", text |-> "#dark-text" ] ]

VARIABLES
  hasThemeProvider,        \* is there a ThemeProvider above the scope
  theme,                   \* the theme in ThemeContext
  isLocalStorageAvailable, \* result of the availability probe
  localStorage,            \* value under STORAGE_KEY, Null when absent
  sysPref,                 \* system preference: "light", "dark" or Null
  listeners,               \* number of change listeners on each system-mode mql
  pendingEvents,           \* mql change events dispatched but not yet handled
  classList,               \* color-mode classes on the target element
  mounted,                 \* is the scope mounted
  mode,                    \* useColorModeState: mode of the last render
  systemMode,              \* useSystemMode: systemMode of the last render
  nextMode,                \* state cell of mode (after queued updates)
  nextSystemMode,          \* state cell of systemMode (after queued updates)
  manualSetRef,            \* manualSetRef.current
  classCleanup,            \* class the class effect's cleanup removes, or Null
  registered,              \* system modes whose handler the passive effect added
  customPropertiesTheme,   \* useColorModeTheme: memo on [theme]
  swapModeTheme,           \* useColorModeTheme: memo on [theme, mode]
  lastEvent,               \* history: kind of the last outside event
  lastExplicit,            \* history: argument of the last explicit setMode
  passes,                  \* history: render passes since the last event
  mounts,                  \* history: number of mounts so far
  call,                    \* the function the last step called, its arguments
  result                   \* what that call returned or threw

vars == << hasThemeProvider, theme, isLocalStorageAvailable, localStorage, sysPref, listeners,
           pendingEvents, classList, mounted, mode, systemMode, nextMode,
           nextSystemMode, manualSetRef, classCleanup, registered,
           customPropertiesTheme, swapModeTheme, lastEvent, lastExplicit,
           passes, mounts, call, result >>

\* The variables of the color-mode scope and of its environment.
scopeVars == << hasThemeProvider, theme, isLocalStorageAvailable,
                localStorage, sysPref,
                listeners, pendingEvents, classList, mounted, mode,
                systemMode, nextMode, nextSystemMode, manualSetRef,
                classCleanup, registered, customPropertiesTheme,
                swapModeTheme, lastEvent, lastExplicit, passes, mounts >>

\* The last step was not a call of an exported function.
NoCall == [ fn |-> "none" ]

----------------------------------------------------------------------------
\* JavaScript a || b on Mode values (null is the only falsy value used).
Or(a, b) == IF a # Null THEN a ELSE b

\* storage.get / storage.set / storage.clear, for both storage objects.
storageGet(available, ls) == IF available THEN ls ELSE Null
storageSet(available, ls, value) == IF available THEN value ELSE ls
storageClear(available, ls) == IF available THEN Null ELSE ls

getColorModeClassName(m) == << COLOR_MODE_CLASS_PREFIX, m >>

hasColorModes(t) == "modes" \in DOMAIN t

hasCustomPropertiesEnabled(t) ==
  t.useCustomProperties = Undefined \/ t.useCustomProperties = "true"

hasMediaQueryEnabled(t) ==
  t.useColorSchemeMediaQuery = Undefined \/ t.useColorSchemeMediaQuery = "true"

getInitialColorModeName(t) ==
  IF t.initialColorModeName # Undefined THEN t.initialColorModeName
  ELSE "default"

getDefaultColorModeName(t) ==
  IF t.defaultColorModeName # Undefined THEN t.defaultColorModeName
  ELSE getInitialColorModeName(t)

\* window.matchMedia('(prefers-color-scheme: m)').matches
mqlMatches(m, pref) == pref = m

\* useSystemMode: configs, the tracked system modes in SYSTEM_MODES order.
Configs(t) ==
  IF ~hasMediaQueryEnabled(t) THEN << >>
  ELSE SelectSeq(SYSTEM_MODES, LAMBDA m : m \in t.modes)

ConfigModes(t) == { Configs(t)[i] : i \in DOMAIN Configs(t) }

\* useSystemMode: with the media query enabled the memo of configs reads
\* theme.colors.modes[mode]; for a theme without colors.modes that is a
\* property of undefined and the render throws a TypeError.
useSystemModeThrows(t) == hasMediaQueryEnabled(t) /\ ~hasColorModes(t)

\* useSystemMode: initial state, the first config whose mql matches.
InitialSystemMode(t, pref) ==
  LET cs == Configs(t)
      hits == { i \in DOMAIN cs : mqlMatches(cs[i], pref) }
  IN  IF hits = {} THEN Null
      ELSE cs[CHOOSE i \in hits : \A j \in hits : i <= j]

\* useSystemMode: the change handler of the mql of mode m.
handler(m, matches, previousMode) ==
  IF matches THEN m
  ELSE IF previousMode = m THEN Null ELSE m

\* The cleanup of the passive effect, forgetting to remove the handlers.
removeListeners_Forgotten(ls, reg) == ls

\* useSystemMode: cleanup and body of the passive effect.
removeListeners(ls, reg) ==
  [ m \in DOMAIN ls |-> IF m \in reg THEN ls[m] - 1 ELSE ls[m] ]
addListeners(ls, cfg) ==
  [ m \in DOMAIN ls |-> IF m \in cfg THEN ls[m] + 1 ELSE ls[m] ]


----------------------------------------------------------------------------
\* useColorModeState: the layout effects.  A queued setMode is returned as
\* the new content q of the state cell of mode.

\* The initial effect, preferring the system mode to the persisted one.
initialEffect_SystemFirst(t, stored, sm, dm, m, q) ==
  IF ~hasColorModes(t) THEN q
  ELSE LET initialMode == Or(sm, Or(stored, dm))
       IN  IF m # initialMode THEN initialMode ELSE q

\* "Set initial color mode in lazy" (deps []).
initialEffect(t, stored, sm, dm, m, q) ==
  IF ~hasColorModes(t) THEN q
  ELSE LET initialMode == Or(stored, Or(sm, dm))
       IN  IF m # initialMode THEN initialMode ELSE q

\* "Store mode preference" (deps [mode]): the new content of localStorage.
storeEffect(manual, m, available, ls) ==
  IF manual
  THEN IF m # Null THEN storageSet(available, ls, m)
       ELSE storageClear(available, ls)
  ELSE ls

\* The sync effect, without the check of the persisted value.
syncEffect_NoStoredCheck(stored, sm, dm, m, q) ==
  LET targetMode == Or(sm, dm)
  IN  IF targetMode = m THEN q ELSE targetMode

\* The sync effect, with the operands of || swapped.
syncEffect_DefaultFirst(stored, sm, dm, m, q) ==
  IF stored # Null THEN q
  ELSE LET targetMode == Or(dm, sm)
       IN  IF targetMode = m THEN q ELSE targetMode

\* "Sync system mode" (deps [mode, systemMode, defaultColorMode]).
syncEffect(stored, sm, dm, m, q) ==
  IF stored # Null THEN q
  ELSE LET targetMode == Or(sm, dm)
       IN  IF targetMode = m THEN q ELSE targetMode

\* The class effect, without the check of customPropertiesEnabled.
classEffect_AnyStrategy(m, customPropertiesEnabled, stored, initialColorMode) ==
  IF m = Null THEN {}
  ELSE IF stored = Null /\ initialColorMode = m THEN {}
  ELSE { getColorModeClassName(m) }

\* The class effect, without the check of the stored and the initial mode.
classEffect_NoInitialCheck(m, customPropertiesEnabled, stored, initialColorMode) ==
  IF m = Null THEN {}
  ELSE IF ~customPropertiesEnabled THEN {}
  ELSE { getColorModeClassName(m) }

\* "Add and remove class names" (deps [customPropertiesEnabled, target, mode,
\* initialColorMode]): the set of classes added (and removed by the cleanup).
classEffect(m, customPropertiesEnabled, stored, initialColorMode) ==
  IF m = Null THEN {}
  ELSE IF ~customPropertiesEnabled THEN {}
  ELSE IF stored = Null /\ initialColorMode = m THEN {}
  ELSE { getColorModeClassName(m) }

\* manuallySetMode(value): the new content of the state cell of mode.
manuallySetMode(value) == value

\* JavaScript { ...a, ...b } on objects given as functions.
Spread(a, b) ==
  [ k \in DOMAIN a \cup DOMAIN b |-> IF k \in DOMAIN b THEN b[k] ELSE a[k] ]

\* An object without keys; spreading undefined adds no key either.
EmptyObject == [ k \in {} |-> "" ]

\* theme.colors.modes[mode]: undefined (no key to spread) when undeclared.
modesOf(t, m) == IF m \in t.modes THEN ModeColors[m] ELSE EmptyObject

\* getModeTheme(theme, mode).colors, leaving the modes key aside.
getModeTheme(t, m) == Spread(ThemeColors, modesOf(t, m))

\* toCustomPropertiesReferences(colors, XSTYLED_COLORS_PREFIX, theme): every
\* token becomes a reference to the custom property named after its path.
toCustomPropertiesReferences(colors) ==
  [ k \in DOMAIN colors |->
      CASE k = "primary" -> "var(--xstyled-colors-primary)"
        [] k = "text" -> "var(--xstyled-colors-text)" ]

\* useColorModeTheme: the two memoised themes.  A theme object is a record
\* whose kind tells how it was built: "null", "theme" (the theme unchanged),
\* "references" (colors replaced by custom-property references), "initial"
\* (the theme tagged with __colorMode) or "swap" (colors replaced by the
\* mode's colors, tagged with __colorMode); colorMode is its __colorMode and
\* colors its colors (without the modes key, which every branch keeps).
NullTheme == [ kind |-> "null", colorMode |-> Null, colors |-> EmptyObject ]

customPropertiesThemeOf(t, m) ==
  IF m = Null THEN NullTheme
  ELSE IF ~hasCustomPropertiesEnabled(t) THEN NullTheme
  ELSE IF ~hasColorModes(t)
       THEN [ kind |-> "theme", colorMode |-> Null, colors |-> ThemeColors ]
  ELSE [ kind |-> "references", colorMode |-> Null,
         colors |-> toCustomPropertiesReferences(ThemeColors) ]

swapModeThemeOf(t, m) ==
  IF m = Null THEN NullTheme
  ELSE IF hasCustomPropertiesEnabled(t) THEN NullTheme
  ELSE IF ~hasColorModes(t)
       THEN [ kind |-> "theme", colorMode |-> Null, colors |-> ThemeColors ]
  ELSE IF m = getInitialColorModeName(t)
       THEN [ kind |-> "initial", colorMode |-> m, colors |-> ThemeColors ]
       ELSE [ kind |-> "swap", colorMode |-> m,
              colors |-> Spread(ThemeColors, modesOf(t, m)) ]

\* The memo of customPropertiesTheme, recomputed when mode changes too.
customPropertiesThemeMemo_ModeDep(previous, t, oldMode, m) ==
  IF m # oldMode THEN customPropertiesThemeOf(t, m) ELSE previous

\* useMemo(..., [theme]) of customPropertiesTheme on a re-render: the theme
\* of a mounted scope never changes, so the memoised object is kept.
customPropertiesThemeMemo(previous, t, oldMode, m) == previous

\* useColorModeTheme: customPropertiesTheme || swapModeTheme
useColorModeTheme(cpt, smt) == IF cpt # NullTheme THEN cpt ELSE smt

\* The init script, without its try block.
initScript_NoTry(available, ls, classes) ==
  IF ~available
  THEN [ classList |-> classes, error |-> "SecurityError" ]
  ELSE IF ls # Null
  THEN [ classList |-> classes \cup { << COLOR_MODE_CLASS_PREFIX, ls >> },
         error |-> Null ]
  ELSE [ classList |-> classes, error |-> Null ]

\* The script of getInitScript(), run on the target: the classList it leaves
\* and the error that leaves the script.  Where storage is not available
\* localStorage.getItem throws inside the try block.
initScript(available, ls, classes) ==
  IF ~available
  THEN [ classList |-> classes, error |-> Null ]
  ELSE IF ls # Null
  THEN [ classList |-> classes \cup { << COLOR_MODE_CLASS_PREFIX, ls >> },
         error |-> Null ]
  ELSE [ classList |-> classes, error |-> Null ]

\* React.useContext(ColorModeContext): the colorState of the provider's last
\* render inside a ColorModeProvider, the context's default null elsewhere.
ColorModeContext(inside, m) ==
  IF inside
  THEN [ isNull |-> FALSE, mode |-> m, setMode |-> "manuallySetMode" ]
  ELSE [ isNull |-> TRUE, mode |-> Null, setMode |-> Null ]

\* useColorMode, without the check of the context value.
useColorMode_NoCheck(colorModeState) ==
  [ error |-> Null, value |-> colorModeState ]

\* useColorMode(): the context value, or the error thrown.
useColorMode(colorModeState) ==
  IF colorModeState.isNull
  THEN [ error |-> "[useColorMode] requires the ColorModeProvider component",
         value |-> colorModeState ]
  ELSE [ error |-> Null, value |-> colorModeState ]

\* ColorModeProvider: the error thrown when useContext(ThemeContext) is
\* empty, Null when there is a theme.
requireTheme(hasTheme) ==
  IF ~hasTheme
  THEN "[ColorModeProvider] requires ThemeProvider upper in the tree"
  ELSE Null

----------------------------------------------------------------------------
\* No state update is waiting for a render pass.
Quiescent == nextMode = mode /\ nextSystemMode = systemMode

NoListeners == [ m \in { SYSTEM_MODES[i] : i \in DOMAIN SYSTEM_MODES } |-> 0 ]

Init ==
  /\ hasThemeProvider \in BOOLEAN
  /\ theme \in Themes
  /\ isLocalStorageAvailable \in BOOLEAN
  /\ localStorage \in (IF isLocalStorageAvailable THEN ModeNames \cup {Null}
                       ELSE {Null})
  /\ sysPref \in {"light", "dark", Null}
  /\ listeners = NoListeners
  /\ pendingEvents = {}
  /\ classList = {}
  /\ mounted = FALSE
  /\ mode = Null
  /\ systemMode = Null
  /\ nextMode = Null
  /\ nextSystemMode = Null
  /\ manualSetRef = FALSE
  /\ classCleanup = {}
  /\ registered = {}
  /\ customPropertiesTheme = NullTheme
  /\ swapModeTheme = NullTheme
  /\ lastEvent = "none"
  /\ lastExplicit = "none"
  /\ passes = 0
  /\ mounts = 0
  /\ call = NoCall
  /\ result = NoCall

\* First render of ColorModeProvider and its commit: every effect runs.
Mount ==
  /\ requireTheme(hasThemeProvider) = Null
  /\ ~useSystemModeThrows(theme)
  /\ ~mounted
  /\ mounts < MaxMounts
  /\ LET sm == InitialSystemMode(theme, sysPref)
         dm == getDefaultColorModeName(theme)
         m0 == IF hasColorModes(theme) THEN dm ELSE Null
         q1 == initialEffect(theme,
                 storageGet(isLocalStorageAvailable, localStorage),
                 sm, dm, m0, m0)
         ls == storeEffect(FALSE, m0, isLocalStorageAvailable, localStorage)
         q2 == syncEffect(storageGet(isLocalStorageAvailable, ls),
                 sm, dm, m0, q1)
         cls == classEffect(m0, hasCustomPropertiesEnabled(theme),
                  storageGet(isLocalStorageAvailable, ls),
                  getInitialColorModeName(theme))
     IN  /\ mounted' = TRUE
         /\ systemMode' = sm
         /\ nextSystemMode' = sm
         /\ mode' = m0
         /\ nextMode' = q2
         /\ manualSetRef' = FALSE
         /\ localStorage' = ls
         /\ classList' = classList \cup cls
         /\ classCleanup' = cls
         /\ listeners' = addListeners(listeners, ConfigModes(theme))
         /\ registered' = ConfigModes(theme)
         /\ customPropertiesTheme' = customPropertiesThemeOf(theme, m0)
         /\ swapModeTheme' = swapModeThemeOf(theme, m0)
  /\ lastEvent' = "mount"
  /\ lastExplicit' = "none"
  /\ passes' = 1
  /\ mounts' = mounts + 1
  /\ UNCHANGED << hasThemeProvider, theme, isLocalStorageAvailable, sysPref, pendingEvents >>
  /\ call' = NoCall
  /\ result' = NoCall

\* A re-render and its commit: cleanups and effects whose deps changed.
Render ==
  /\ mounted
  /\ ~Quiescent
  /\ passes < MaxPasses
  /\ LET m == nextMode
         sm == nextSystemMode
         dm == getDefaultColorModeName(theme)
         modeChanged == m # mode
         systemModeChanged == sm # systemMode
         ls == IF modeChanged
               THEN storeEffect(manualSetRef, m, isLocalStorageAvailable,
                                localStorage)
               ELSE localStorage
         q == IF modeChanged \/ systemModeChanged
              THEN syncEffect(storageGet(isLocalStorageAvailable, ls),
                              sm, dm, m, m)
              ELSE m
         cls == classEffect(m, hasCustomPropertiesEnabled(theme),
                  storageGet(isLocalStorageAvailable, ls),
                  getInitialColorModeName(theme))
     IN  /\ mode' = m
         /\ systemMode' = sm
         /\ nextMode' = q
         /\ localStorage' = ls
         /\ classList' = IF modeChanged
                         THEN (classList \ classCleanup) \cup cls
                         ELSE classList
         /\ classCleanup' = IF modeChanged THEN cls ELSE classCleanup
         /\ listeners' = addListeners(removeListeners(listeners, registered),
                                      ConfigModes(theme))
         /\ registered' = ConfigModes(theme)
         /\ customPropertiesTheme' =
              customPropertiesThemeMemo(customPropertiesTheme, theme, mode, m)
         /\ swapModeTheme' = IF modeChanged THEN swapModeThemeOf(theme, m)
                             ELSE swapModeTheme
  /\ passes' = passes + 1
  /\ UNCHANGED << hasThemeProvider, theme, isLocalStorageAvailable, sysPref, pendingEvents,
                  mounted, nextSystemMode, manualSetRef,
                  lastEvent, lastExplicit, mounts >>
  /\ call' = NoCall
  /\ result' = NoCall

\* The application calls the setMode of the color-mode state.
SetMode(value) ==
  /\ mounted
  /\ Quiescent
  /\ pendingEvents = {}
  /\ manualSetRef' = TRUE
  /\ nextMode' = manuallySetMode(value)
  /\ lastEvent' = "setMode"
  /\ lastExplicit' = value
  /\ passes' = 0
  /\ UNCHANGED << hasThemeProvider, theme, isLocalStorageAvailable, localStorage, sysPref,
                  listeners, pendingEvents, classList, mounted, mode,
                  systemMode, nextSystemMode, classCleanup, registered,
                  customPropertiesTheme, swapModeTheme, mounts >>
  /\ call' = NoCall
  /\ result' = NoCall

\* The system preference changes: every mql whose result changes and that
\* has a listener gets a change event.
SystemPreferenceChange(pref) ==
  /\ pref # sysPref
  /\ mounted => Quiescent
  /\ pendingEvents = {}
  /\ sysPref' = pref
  /\ pendingEvents' =
       { [ mode |-> m, matches |-> mqlMatches(m, pref) ] :
           m \in { x \in DOMAIN listeners :
                     /\ listeners[x] > 0
                     /\ mqlMatches(x, pref) # mqlMatches(x, sysPref) } }
  /\ lastEvent' = IF mounted THEN "system" ELSE lastEvent
  /\ passes' = IF mounted THEN 0 ELSE passes
  /\ UNCHANGED << hasThemeProvider, theme, isLocalStorageAvailable, localStorage, listeners,
                  classList, mounted, mode, systemMode, nextMode,
                  nextSystemMode, manualSetRef, classCleanup, registered,
                  customPropertiesTheme, swapModeTheme, lastExplicit, mounts >>
  /\ call' = NoCall
  /\ result' = NoCall

\* One mql change event is handled by the handler of its mode.
DeliverEvent(e) ==
  /\ e \in pendingEvents
  /\ mounted
  /\ Quiescent
  /\ pendingEvents' = pendingEvents \ {e}
  /\ nextSystemMode' = handler(e.mode, e.matches, nextSystemMode)
  /\ passes' = 0
  /\ UNCHANGED << hasThemeProvider, theme, isLocalStorageAvailable, localStorage, sysPref,
                  listeners, classList, mounted, mode, systemMode, nextMode,
                  manualSetRef, classCleanup, registered,
                  customPropertiesTheme, swapModeTheme, lastEvent,
                  lastExplicit, mounts >>
  /\ call' = NoCall
  /\ result' = NoCall

\* The scope unmounts: every effect's cleanup runs, the state is dropped.
Unmount ==
  /\ mounted
  /\ Quiescent
  /\ pendingEvents = {}
  /\ mounted' = FALSE
  /\ classList' = classList \ classCleanup
  /\ classCleanup' = {}
  /\ listeners' = removeListeners(listeners, registered)
  /\ registered' = {}
  /\ mode' = Null
  /\ systemMode' = Null
  /\ nextMode' = Null
  /\ nextSystemMode' = Null
  /\ manualSetRef' = FALSE
  /\ customPropertiesTheme' = NullTheme
  /\ swapModeTheme' = NullTheme
  /\ lastEvent' = "unmount"
  /\ lastExplicit' = "none"
  /\ passes' = 0
  /\ UNCHANGED << hasThemeProvider, theme, isLocalStorageAvailable, localStorage, sysPref,
                  pendingEvents, mounts >>
  /\ call' = NoCall
  /\ result' = NoCall

\* ColorModeProvider is rendered where no ThemeProvider is above it: the
\* render throws before useColorModeState is called.
MountWithoutTheme ==
  /\ requireTheme(hasThemeProvider) # Null
  /\ ~mounted
  /\ call' = [ fn |-> "ColorModeProvider" ]
  /\ result' = [ error |-> requireTheme(hasThemeProvider) ]
  /\ UNCHANGED scopeVars

\* ColorModeProvider is rendered over a theme for which useSystemMode
\* throws: the first render fails, no effect runs.
MountFails ==
  /\ requireTheme(hasThemeProvider) = Null
  /\ useSystemModeThrows(theme)
  /\ ~mounted
  /\ call' = [ fn |-> "ColorModeProvider" ]
  /\ result' = [ error |-> "TypeError" ]
  /\ UNCHANGED scopeVars

\* The init script runs in the document, before the application mounts.
InitScript ==
  /\ ~mounted
  /\ mounts = 0
  /\ LET r == initScript(isLocalStorageAvailable, localStorage, classList)
     IN  /\ classList' = r.classList
         /\ call' = [ fn |-> "initScript" ]
         /\ result' = [ error |-> r.error ]
  /\ UNCHANGED << hasThemeProvider, theme, isLocalStorageAvailable,
                  localStorage, sysPref, listeners, pendingEvents, mounted,
                  mode, systemMode, nextMode, nextSystemMode, manualSetRef,
                  classCleanup, registered, customPropertiesTheme,
                  swapModeTheme, lastEvent, lastExplicit, passes, mounts >>

\* A component calls useColorMode(), inside the mounted scope or outside
\* of any ColorModeProvider.
UseColorMode(inside) ==
  /\ inside => mounted
  /\ call' = [ fn |-> "useColorMode", inside |-> inside ]
  /\ result' = useColorMode(ColorModeContext(inside, mode))
  /\ UNCHANGED scopeVars

Next ==
  \/ Mount
  \/ MountWithoutTheme
  \/ InitScript
  \/ \E inside \in BOOLEAN : UseColorMode(inside)
  \/ Render
  \/ \E value \in ModeNames \cup {Null} : SetMode(value)
  \/ \E pref \in {"light", "dark", Null} : SystemPreferenceChange(pref)
  \/ \E e \in pendingEvents : DeliverEvent(e)
  \/ Unmount

Spec == Init /\ [][Next]_vars

----------------------------------------------------------------------------
(***************************************************************************)
(* The style functions: createColorStyles, the breakpoint helpers, createX *)
(* and the resolution of spacing props.  They are pure; StyleSpec calls    *)
(* them on inputs drawn from bounded sets and records each call and its    *)
(* result, the color-mode scope staying unmounted.  A string built by a    *)
(* template literal is the tuple of its parts.                             *)
(***************************************************************************)

XSTYLED_COLORS_PREFIX == "xstyled-colors"

\* Themes without colors.modes, next to the themes that declare modes.
PlainThemes ==
  [ useCustomProperties : {Undefined, "true", "false"},
    useColorSchemeMediaQuery : {Undefined, "true", "false"},
    initialColorModeName : {Undefined, "light"},
    defaultColorModeName : {Undefined, "dark"} ]

StyleThemes == Themes \cup PlainThemes

TargetSelectors == {"body", "#root"}

getMediaQuery(query) == << "@media " >> \o query
getColorModeQuery(m) == << "(prefers-color-scheme: ", m, ")" >>

\* Object.keys(theme.colors.modes), the modes being declared light first.
ObjectKeys(modes) == SelectSeq(SYSTEM_MODES, LAMBDA m : m \in modes)

\* toCustomPropertiesDeclarations(colors, XSTYLED_COLORS_PREFIX, theme): one
\* declaration of the custom property of each token.
toCustomPropertiesDeclarations(colors) ==
  [ k \in DOMAIN colors |-> << "--", XSTYLED_COLORS_PREFIX, "-", k, colors[k] >> ]

\* createColorStyles: getModePropertiesDeclarations(mode).
getModePropertiesDeclarations(t, m) ==
  toCustomPropertiesDeclarations(Spread(getModeTheme(t, m), modesOf(t, m)))

\* createColorStyles(theme, { targetSelector }): null, or the rule of the
\* target selector as the sequence of its parts: the declarations of the
\* base colors, then the media-query blocks, then the class blocks.
createColorStyles(t, targetSelector) ==
  IF ~hasColorModes(t)
  THEN [ isNull |-> TRUE, targetSelector |-> targetSelector, styles |-> << >> ]
  ELSE
    LET base == << [ kind |-> "declarations", key |-> << >>, mode |-> Null,
                     declarations |->
                       toCustomPropertiesDeclarations(ThemeColors) ] >>
        systemModes == IF t.useColorSchemeMediaQuery # "false"
                       THEN SelectSeq(SYSTEM_MODES, LAMBDA m : m \in t.modes)
                       ELSE << >>
        media == [ i \in 1..Len(systemModes) |->
                     [ kind |-> "media",
                       key |-> getMediaQuery(getColorModeQuery(systemModes[i])),
                       mode |-> systemModes[i],
                       declarations |->
                         getModePropertiesDeclarations(t, systemModes[i]) ] ]
        names == << getInitialColorModeName(t) >> \o ObjectKeys(t.modes)
        classes == [ i \in 1..Len(names) |->
                       [ kind |-> "class",
                         key |-> << "&." >> \o getColorModeClassName(names[i]),
                         mode |-> names[i],
                         declarations |->
                           getModePropertiesDeclarations(t, names[i]) ] ]
    IN  [ isNull |-> FALSE, targetSelector |-> targetSelector,
          styles |-> base \o media \o classes ]

\* A value that is a string or null: null, or the parts of the string.
NullString == [ isNull |-> TRUE, text |-> << >> ]
String(parts) == [ isNull |-> FALSE, text |-> parts ]
Truthy(value) == ~value.isNull /\ value.text # << >>

DEFAULT_BREAKPOINTS ==
  [ xs |-> 0, sm |-> 576, md |-> 768, lg |-> 992, xl |-> 1200 ]

\* The breakpoint tables of themes: every table over these keys and widths.
BreakpointKeys == {"xs", "sm", "md"}
Widths == {0, 576, 768}
ThemeBreakpoints ==
  UNION { [ K -> Widths ] : K \in (SUBSET BreakpointKeys) \ {{}} }
BreakpointTables == ThemeBreakpoints \cup {DEFAULT_BREAKPOINTS}

\* The props of a styled component: a theme with or without breakpoints.
SpaceTheme == [ space |-> [ md |-> 10 ] ]
StyleProps ==
  { [ theme |-> SpaceTheme ] } \cup
  { [ theme |-> [ breakpoints |-> b ] ] : b \in ThemeBreakpoints }

\* getThemeValue(props, path) of @xstyled/util: the value of props.theme at
\* the path, undefined when the theme has none.
getThemeValue(props, path) ==
  IF path \in DOMAIN props.theme
  THEN [ isDefined |-> TRUE, value |-> props.theme[path] ]
  ELSE [ isDefined |-> FALSE, value |-> EmptyObject ]

\* is(value) of @xstyled/util: the value is neither undefined nor null.
is(value) == value.isDefined

\* px(value) of ./unit: the number with the px unit.
px(value) == String(<< value, "px" >>)

getBreakpoints(props) ==
  LET themeBreakpoints == getThemeValue(props, "breakpoints")
  IN  IF is(themeBreakpoints) THEN themeBreakpoints.value
      ELSE DEFAULT_BREAKPOINTS

\* mediaMinWidth, building the max-width query.
mediaMinWidth_Max(value) ==
  IF Truthy(value)
  THEN String(<< "@media (max-width: " >> \o value.text \o << ")" >>)
  ELSE NullString

mediaMinWidth(value) ==
  IF Truthy(value)
  THEN String(<< "@media (min-width: " >> \o value.text \o << ")" >>)
  ELSE NullString

getBreakpointMin(breakpoints, key) ==
  LET value == breakpoints[key]
  IN  IF value = 0 THEN NullString ELSE px(value)

\* style({ prop, cssProperty }): a style definition, a generator of one
\* definition.  cssProperty defaults to the prop.
style(prop, cssProperty) ==
  << [ prop |-> prop, cssProperty |-> cssProperty ] >>

background == style(<< "background" >>, "background")
backgroundColor == style(<< "backgroundColor", "bg" >>, "backgroundColor")
backgroundImage == style(<< "backgroundImage" >>, "backgroundImage")
backgroundSize == style(<< "backgroundSize" >>, "backgroundSize")
backgroundPosition == style(<< "backgroundPosition" >>, "backgroundPosition")
backgroundRepeat == style(<< "backgroundRepeat" >>, "backgroundRepeat")

\* compose(...generators): the definitions of the generators in the order of
\* composition.
RECURSIVE compose(_)
compose(generators) ==
  IF generators = << >> THEN << >>
  ELSE Head(generators) \o compose(Tail(generators))

backgrounds ==
  compose(<< background, backgroundColor, backgroundImage, backgroundSize,
             backgroundPosition, backgroundRepeat >>)

\* The generators a user extends x with: two more definitions of the
\* backgroundColor property and one of backgroundImage.
tint == style(<< "tint" >>, "backgroundColor")
surface == style(<< "surface" >>, "backgroundColor")
cover == style(<< "cover" >>, "backgroundImage")
ExtensionGenerators == { tint, surface, cover, backgroundColor }

\* Property bags: the keys in the order they were written, with their values.
MaxBagLen == 2
BagKeys == {"bg", "tint", "surface", "cover", "backgroundImage"}
BagValues == {"red", "blue"}
PropertyBags ==
  { bag \in UNION { [ 1..n -> [ key : BagKeys, value : BagValues ] ] :
                      n \in 1..MaxBagLen } :
      \A i, j \in DOMAIN bag : bag[i].key = bag[j].key => i = j }

HasKey(bag, key) == \E i \in DOMAIN bag : bag[i].key = key
ValueOf(bag, key) == bag[CHOOSE i \in DOMAIN bag : bag[i].key = key].value

\* The declaration of one style definition for a property bag: none when the
\* bag has none of its props.
styleOf(definition, bag) ==
  LET present == SelectSeq(definition.prop, LAMBDA name : HasKey(bag, name))
  IN  IF present = << >> THEN EmptyObject
      ELSE [ k \in { definition.cssProperty } |-> ValueOf(bag, present[1]) ]

\* The resolver of a composed generator: the declarations of its definitions
\* merged in the order of composition, a later one replacing an earlier one
\* of the same CSS property.
RECURSIVE getStyle(_, _)
getStyle(generator, bag) ==
  IF generator = << >> THEN EmptyObject
  ELSE Spread(styleOf(Head(generator), bag), getStyle(Tail(generator), bag))

createX(generator) == [ generator |-> generator ]

\* x.extend, with the base generator composed last.
extend_BaseLast(x, generators) ==
  createX(compose(generators \o << x.generator >>))

\* x.extend(...generators)
extend(x, generators) == createX(compose(<< x.generator >> \o generators))

mediaMaxWidth(value) ==
  IF Truthy(value)
  THEN String(<< "@media (max-width: " >> \o value.text \o << ")" >>)
  ELSE NullString

\* breakPoint - 0.02 for a width of whole pixels, as units and hundredths.
Minus002(breakPoint) == [ units |-> breakPoint - 1, hundredths |-> 98 ]

getBreakpointMax(breakpoints, key) ==
  LET breakPoint == breakpoints[key]
  IN  IF breakPoint = 0 THEN NullString ELSE px(Minus002(breakPoint))

\* The color-mode scope is not used: it stays unmounted.
ScopeUnused ==
  /\ hasThemeProvider = TRUE
  /\ theme = [ modes |-> {}, useCustomProperties |-> Undefined,
               useColorSchemeMediaQuery |-> Undefined,
               initialColorModeName |-> Undefined,
               defaultColorModeName |-> Undefined ]
  /\ isLocalStorageAvailable = FALSE
  /\ localStorage = Null
  /\ sysPref = Null
  /\ listeners = NoListeners
  /\ pendingEvents = {}
  /\ classList = {}
  /\ mounted = FALSE
  /\ mode = Null
  /\ systemMode = Null
  /\ nextMode = Null
  /\ nextSystemMode = Null
  /\ manualSetRef = FALSE
  /\ classCleanup = {}
  /\ registered = {}
  /\ customPropertiesTheme = NullTheme
  /\ swapModeTheme = NullTheme
  /\ lastEvent = "none"
  /\ lastExplicit = "none"
  /\ passes = 0
  /\ mounts = 0

\* The spacing definitions of the system: margin with its alias m, padding
\* with its alias p.
margin == style(<< "margin", "m" >>, "margin")
padding == style(<< "padding", "p" >>, "padding")
space == compose(<< margin, padding >>)

\* The value of a spacing prop: a number of units, or a string as the tuple
\* of its parts, a leading "-" being a part of its own.
MaxUnits == 2
SpaceTokens == {"sm", "md"}
Number(n) == [ kind |-> "number", n |-> n, text |-> << >> ]
Text(parts) == [ kind |-> "string", n |-> 0, text |-> parts ]
SpacingValues ==
  { Number(n) : n \in -MaxUnits..MaxUnits } \cup
  { Text(<< k >>) : k \in SpaceTokens } \cup
  { Text(<< "-", k >>) : k \in SpaceTokens }

\* The themes of the spacing scenarios: no space scale (the default scale),
\* or a scale of tokens.
SpaceThemes ==
  { [ colors |-> EmptyObject ] } \cup
  { [ space |-> sp ] : sp \in [ SpaceTokens -> {1, 10} ] } \cup
  { SpaceTheme }

\* Spacing property bags: one or two props, never a prop with its alias.
SpacingBags ==
  { bag \in UNION { [ 1..n -> [ key : {"m", "margin", "p"},
                                value : SpacingValues ] ] : n \in 1..2 } :
      /\ \A i, j \in DOMAIN bag : bag[i].key = bag[j].key => i = j
      /\ ~(HasKey(bag, "m") /\ HasKey(bag, "margin")) }

\* toLength, without the scale.
toLength_NoScale(value) ==
  IF value.kind = "number"
  THEN IF value.n = 0 THEN String(<< "0" >>)
       ELSE String(<< value.n, "px" >>)
  ELSE String(value.text)

\* toLength(value): a number times the default scale of 4px per unit, "0"
\* for zero, a string unchanged.
toLength(value) ==
  IF value.kind = "number"
  THEN IF value.n = 0 THEN String(<< "0" >>)
       ELSE String(<< 4 * value.n, "px" >>)
  ELSE String(value.text)

\* The theme getter of space, without the negation of a "-" token.
getSpace_NoNegation(t, value) ==
  IF value.kind = "number" THEN toLength(value)
  ELSE LET negative == Head(value.text) = "-"
           path == IF negative THEN value.text[2] ELSE value.text[1]
       IN  IF "space" \in DOMAIN t /\ path \in DOMAIN t.space
           THEN px(t.space[path])
           ELSE String(value.text)

\* The theme getter of space: a token is looked up in theme.space and given
\* the px unit, a token prefixed with "-" is looked up without the prefix
\* and negated; a number goes to toLength; anything else is left as it is.
getSpace(t, value) ==
  IF value.kind = "number" THEN toLength(value)
  ELSE LET negative == Head(value.text) = "-"
           path == IF negative THEN value.text[2] ELSE value.text[1]
       IN  IF "space" \in DOMAIN t /\ path \in DOMAIN t.space
           THEN px(IF negative THEN -t.space[path] ELSE t.space[path])
           ELSE String(value.text)

\* The rule of a Box for a bag of scalar spacing props: one block without a
\* media query.
Box(t, bag) ==
  LET declared == getStyle(space, bag)
  IN  [ media |-> NullString,
        declarations |->
          [ k \in DOMAIN declared |-> getSpace(t, declared[k]) ] ]

MaxGenerators == 2

StyleInit ==
  /\ ScopeUnused
  /\ result = NoCall
  /\ \/ \E t \in StyleThemes, sel \in TargetSelectors :
          call = [ fn |-> "createColorStyles", theme |-> t,
                   targetSelector |-> sel ]
     \/ \E props \in StyleProps :
          call = [ fn |-> "getBreakpoints", props |-> props ]
     \/ \E b \in BreakpointTables : \E key \in DOMAIN b :
          call = [ fn |-> "mediaMinWidth", breakpoints |-> b, key |-> key ]
     \/ \E b \in BreakpointTables : \E key \in DOMAIN b :
          call = [ fn |-> "getBreakpointMax", breakpoints |-> b, key |-> key ]
     \/ \E generators \in UNION { [ 1..n -> ExtensionGenerators ] :
                                    n \in 1..MaxGenerators },
           bag \in PropertyBags :
          call = [ fn |-> "extend", x |-> createX(backgrounds),
                   generators |-> generators, props |-> bag ]
     \/ \E t \in SpaceThemes, bag \in SpacingBags :
          call = [ fn |-> "Box", theme |-> t, props |-> bag ]

\* createColorStyles(theme, { targetSelector }) returns.
CreateColorStyles ==
  /\ call.fn = "createColorStyles"
  /\ result = NoCall
  /\ result' = createColorStyles(call.theme, call.targetSelector)
  /\ UNCHANGED << call, scopeVars >>

\* getBreakpoints(props) returns.
GetBreakpoints ==
  /\ call.fn = "getBreakpoints"
  /\ result = NoCall
  /\ result' = getBreakpoints(call.props)
  /\ UNCHANGED << call, scopeVars >>

\* mediaMinWidth(getBreakpointMin(breakpoints, key)) returns.
MediaMinWidth ==
  /\ call.fn = "mediaMinWidth"
  /\ result = NoCall
  /\ result' = mediaMinWidth(getBreakpointMin(call.breakpoints, call.key))
  /\ UNCHANGED << call, scopeVars >>

\* getBreakpointMax(breakpoints, key) returns, and mediaMaxWidth of it.
GetBreakpointMax ==
  /\ call.fn = "getBreakpointMax"
  /\ result = NoCall
  /\ LET max == getBreakpointMax(call.breakpoints, call.key)
     IN  result' = [ max |-> max, query |-> mediaMaxWidth(max) ]
  /\ UNCHANGED << call, scopeVars >>

\* x.extend(...generators) returns the new x, and a component of the new x
\* is styled with the property bag.
Extend ==
  /\ call.fn = "extend"
  /\ result = NoCall
  /\ LET extended == extend(call.x, call.generators)
     IN  result' = [ x |-> extended, original |-> call.x,
                     style |-> getStyle(extended.generator, call.props) ]
  /\ UNCHANGED << call, scopeVars >>

\* A Box is rendered with the spacing props under the theme.
RenderBox ==
  /\ call.fn = "Box"
  /\ result = NoCall
  /\ result' = Box(call.theme, call.props)
  /\ UNCHANGED << call, scopeVars >>

StyleNext ==
  \/ CreateColorStyles
  \/ GetBreakpoints
  \/ MediaMinWidth
  \/ GetBreakpointMax
  \/ Extend
  \/ RenderBox

StyleSpec == StyleInit /\ [][StyleNext]_vars

----------------------------------------------------------------------------
(***************************************************************************)
(* The color-mode scope over a theme that declares no color modes: the     *)
(* same scope, its theme drawn from PlainThemes.  No mql gets a listener,  *)
(* so no change event is ever delivered.                                   *)
(***************************************************************************)
PlainInit ==
  /\ hasThemeProvider = TRUE
  /\ theme \in PlainThemes
  /\ isLocalStorageAvailable \in BOOLEAN
  /\ localStorage \in (IF isLocalStorageAvailable THEN ModeNames \cup {Null}
                       ELSE {Null})
  /\ sysPref \in {"light", "dark", Null}
  /\ listeners = NoListeners
  /\ pendingEvents = {}
  /\ classList = {}
  /\ mounted = FALSE
  /\ mode = Null
  /\ systemMode = Null
  /\ nextMode = Null
  /\ nextSystemMode = Null
  /\ manualSetRef = FALSE
  /\ classCleanup = {}
  /\ registered = {}
  /\ customPropertiesTheme = NullTheme
  /\ swapModeTheme = NullTheme
  /\ lastEvent = "none"
  /\ lastExplicit = "none"
  /\ passes = 0
  /\ mounts = 0
  /\ call = NoCall
  /\ result = NoCall

PlainNext ==
  \/ Mount
  \/ MountFails
  \/ Render
  \/ \E pref \in {"light", "dark", Null} : SystemPreferenceChange(pref)
  \/ Unmount

PlainSpec == PlainInit /\ [][PlainNext]_vars

----------------------------------------------------------------------------
\* The theme's default mode name, as the claims state it.
DefaultModeName ==
  IF theme.defaultColorModeName # Undefined THEN theme.defaultColorModeName
  ELSE IF theme.initialColorModeName # Undefined
       THEN theme.initialColorModeName
       ELSE "default"

\* The system preference is tracked and names a mode the theme declares.
SystemPreferenceTracked ==
  /\ theme.useColorSchemeMediaQuery # "false"
  /\ sysPref \in {"light", "dark"}
  /\ sysPref \in theme.modes

\* The scope is mounted and every effect has settled.
Settled == mounted /\ Quiescent /\ pendingEvents = {}

\* C1: after the scope mounts with a theme that declares color modes and
\* its effects have settled, the resolved mode is the persisted value if
\* there is one, else the system preference if it is tracked and declared,
\* else the theme's default mode name.
C1_InitialResolution ==
  (Settled /\ lastEvent = "mount" /\ hasColorModes(theme)) =>
    mode = (IF localStorage # Null THEN localStorage
            ELSE IF SystemPreferenceTracked THEN sysPref
            ELSE DefaultModeName)

C1_Witness ==
  /\ Settled /\ lastEvent = "mount" /\ passes = 2
  /\ localStorage = Null /\ sysPref = "dark"
  /\ theme.modes = {"light", "dark"}
  /\ mode = "dark"

\* C2: after an explicit setMode(m) with a non-null m (storage being
\* available), no step of the handling of a later system-preference change
\* alters the resolved mode.
C2_ExplicitChoiceSticky ==
  [][ (/\ mounted /\ isLocalStorageAvailable
       /\ lastExplicit \notin {"none", Null}
       /\ lastEvent' = "system")
        => mode' = mode ]_vars

\* C3: once the effects of an explicit setMode(m) with a non-null m have
\* settled, storage (when available) holds exactly m.
C3_ExplicitSetPersists ==
  (Settled /\ isLocalStorageAvailable /\ lastEvent = "setMode"
     /\ lastExplicit # Null) =>
    localStorage = lastExplicit

\* C4: after an explicit setMode(null), once effects have settled, storage
\* holds no value, and it stays empty through system-preference changes
\* until the next explicit setMode.
C4_ExplicitNullClears ==
  (Settled /\ lastExplicit = Null) => localStorage = Null

\* C5: while storage holds a persisted mode, no step of the handling of a
\* system-preference change alters the resolved mode.
C5_PersistedBlocksSystem ==
  [][ (mounted /\ localStorage # Null /\ lastEvent' = "system")
        => mode' = mode ]_vars

C5_Witness ==
  /\ Settled /\ lastEvent = "system" /\ passes = 1
  /\ localStorage = "light" /\ mode = "light"
  /\ systemMode = "dark" /\ sysPref = "dark"

\* C6: no step of the mount or of the handling of a system-preference
\* change writes or clears storage; only an explicit setMode does.
C6_SystemChangesVolatile ==
  [][ (lastEvent' \in {"system", "mount"}) => localStorage' = localStorage ]_vars

\* C7: with storage unavailable, once the effects of an explicit setMode(m)
\* with m a mode the theme declares have settled, the resolved mode is m.
C7_InMemoryTracking ==
  (Settled /\ ~isLocalStorageAvailable /\ lastEvent = "setMode"
     /\ lastExplicit \in theme.modes) =>
    mode = lastExplicit

\* C8: after any single event the chain of render passes is finite: at most
\* two render passes happen and after the second no update is pending.
C8_NoOscillation ==
  /\ passes <= 2
  /\ (mounted /\ passes = 2) => Quiescent

C8_Witness ==
  /\ Settled /\ passes = 2 /\ lastEvent = "setMode" /\ lastExplicit = Null
  /\ mode # Null

\* C9: each tracked system-mode media query has at most one change listener
\* while the scope is mounted and none after it unmounts.
C9_ListenersIdempotent ==
  \A m \in DOMAIN listeners :
    /\ listeners[m] <= 1
    /\ ~mounted => listeners[m] = 0
    /\ listeners[m] = 1 => m \in registered

C9_Witness ==
  /\ mounted /\ mounts = 2 /\ lastEvent = "system" /\ passes >= 1
  /\ listeners["dark"] = 1 /\ listeners["light"] = 1

\* C10: the custom-property theme and the mode-swapped theme are never both
\* produced; the first only with custom properties enabled, the second only
\* with them disabled; the scope's mode class is on the target only with
\* custom properties enabled.
C10_StrategiesExclusive ==
  LET enabled == theme.useCustomProperties \in {Undefined, "true"}
  IN  /\ ~(customPropertiesTheme # NullTheme /\ swapModeTheme # NullTheme)
      /\ customPropertiesTheme # NullTheme => enabled
      /\ swapModeTheme # NullTheme => ~enabled
      /\ classCleanup # {} => enabled

C10_Witness ==
  /\ mounted /\ theme.useCustomProperties = "false"
  /\ swapModeTheme.kind = "swap" /\ customPropertiesTheme = NullTheme
  /\ localStorage # Null /\ classList = {}

\* The theme ColorModeProvider hands to ThemeProvider.
PropagatedTheme == useColorModeTheme(customPropertiesTheme, swapModeTheme)

\* C11: with color modes and custom properties enabled, the propagated theme
\* is the custom-property-reference theme and no step of a mounted scope
\* changes it, whatever happens to the mode and to the class of the target.
C11_PureClassToggle ==
  [][ (mounted /\ mounted' /\ theme.useCustomProperties # "false")
        => /\ PropagatedTheme.kind = "references"
           /\ PropagatedTheme' = PropagatedTheme ]_vars

C11_Witness ==
  /\ Settled /\ theme.useCustomProperties # "false"
  /\ lastEvent = "setMode" /\ lastExplicit = "dark" /\ mode = "dark"
  /\ classList = { << "xstyled-color-mode-", "dark" >> }
  /\ passes = 1
  /\ PropagatedTheme.colors["primary"] = "var(--xstyled-colors-primary)"

\* C12: in theme-swap mode, for every active mode m and every color token,
\* the propagated theme's color is the value mode m declares for the token
\* when it declares one and the base value otherwise, and the propagated
\* theme records the active mode.
C12_SwapFollowsMode ==
  (mounted /\ theme.useCustomProperties = "false" /\ mode # Null) =>
    /\ PropagatedTheme.colorMode = mode
    /\ \A k \in Tokens :
         PropagatedTheme.colors[k] =
           (IF mode \in theme.modes /\ k \in DOMAIN ModeColors[mode]
            THEN ModeColors[mode][k]
            ELSE ThemeColors[k])

\* The number of blocks of a kind that createColorStyles emitted for a mode.
BlockCount(styles, kind, m) ==
  Cardinality({ i \in DOMAIN styles :
                  styles[i].kind = kind /\ styles[i].mode = m })

\* C13: createColorStyles returns null for a theme without color modes;
\* otherwise it emits exactly one class block for the initial mode and for
\* each declared mode (one per distinct name) and no other class block, and
\* one prefers-color-scheme block for each of light and dark that the theme
\* declares unless useColorSchemeMediaQuery is false, none otherwise.
C13_OneBlockPerMode ==
  (call.fn = "createColorStyles" /\ result # NoCall) =>
    LET t == call.theme
    IN  IF "modes" \notin DOMAIN t THEN result.isNull
        ELSE
          /\ ~result.isNull
          /\ \A m \in ModeNames :
               BlockCount(result.styles, "class", m) =
                 (IF m \in t.modes
                     \/ m = getInitialColorModeName(t) THEN 1 ELSE 0)
          /\ \A m \in ModeNames :
               BlockCount(result.styles, "media", m) =
                 (IF /\ t.useColorSchemeMediaQuery # "false"
                     /\ m \in {"light", "dark"}
                     /\ m \in t.modes THEN 1 ELSE 0)

\* C14: the init script adds exactly the class prefix+m when storage holds
\* m, the class name the hook's class effect adds and its cleanup removes
\* for mode m; it adds nothing when storage is empty; when reading storage
\* throws it changes nothing; no error leaves the script.
C14_InitScriptApplies ==
  [][ call'.fn = "initScript" =>
        LET stored == storageGet(isLocalStorageAvailable, localStorage)
        IN  /\ result'.error = Null
            /\ localStorage' = localStorage
            /\ IF isLocalStorageAvailable /\ localStorage # Null
               THEN /\ classList' = classList \cup
                                      { << "xstyled-color-mode-", stored >> }
                    /\ classEffect(stored, TRUE, stored, Null) \subseteq
                         classList'
               ELSE classList' = classList ]_vars

C14_Witness ==
  /\ call.fn = "initScript" /\ result.error = Null
  /\ isLocalStorageAvailable /\ localStorage = "dark"
  /\ classList = { << "xstyled-color-mode-", "dark" >> } /\ ~mounted

\* C15: useColorMode outside a ColorModeProvider throws and inside one
\* returns the [mode, setMode] pair; rendering ColorModeProvider without a
\* ThemeProvider above it throws, and the scope is never mounted: no mode
\* state, no listener, no class of the scope and no write to storage.
C15_MisuseFailsLoudly ==
  /\ [](call.fn = "useColorMode" =>
          IF call.inside
          THEN /\ result.error = Null
               /\ result.value.mode = mode
               /\ result.value.setMode = "manuallySetMode"
          ELSE result.error # Null)
  /\ [](call.fn = "ColorModeProvider" => result.error # Null)
  /\ [](~hasThemeProvider =>
          /\ ~mounted /\ mode = Null /\ nextMode = Null
          /\ systemMode = Null /\ nextSystemMode = Null
          /\ listeners = NoListeners /\ classCleanup = {} /\ mounts = 0)
  /\ [][ ~hasThemeProvider =>
           /\ localStorage' = localStorage
           /\ (call'.fn = "ColorModeProvider" => classList' = classList) ]_vars

C15_Witness ==
  /\ ~hasThemeProvider /\ call.fn = "ColorModeProvider"
  /\ result.error = "[ColorModeProvider] requires ThemeProvider upper in the tree"
  /\ localStorage = "dark" /\ classList = {}

\* The mode names a theme knows: its initial and default mode names and the
\* modes it declares.
KnownModes(t) ==
  t.modes \cup { getInitialColorModeName(t), getDefaultColorModeName(t) }

\* C16: the resolved mode is always null or a mode name the theme knows (its
\* initial or default mode name or a declared mode), and the scope puts no
\* class on the target for any other name, whatever storage held and
\* whatever setMode was given.
C16_UnknownModesIgnored ==
  mounted =>
    /\ mode \in KnownModes(theme) \cup {Null}
    /\ classCleanup \subseteq
         { getColorModeClassName(m) : m \in KnownModes(theme) }

\* C17: for every breakpoint table and key of it, the min-width media query
\* of the key is null exactly when the breakpoint's width is 0 and is
\* '@media (min-width: {width}px)' otherwise; getBreakpoints returns the
\* theme's table when the theme has one and the default table otherwise.
C17_MinWidthQuery ==
  /\ (call.fn = "mediaMinWidth" /\ result # NoCall) =>
       LET width == call.breakpoints[call.key]
       IN  IF width = 0 THEN result.isNull
           ELSE /\ ~result.isNull
                /\ result.text = << "@media (min-width: ", width, "px", ")" >>
  /\ (call.fn = "getBreakpoints" /\ result # NoCall) =>
       result = (IF "breakpoints" \in DOMAIN call.props.theme
                 THEN call.props.theme.breakpoints
                 ELSE [ xs |-> 0, sm |-> 576, md |-> 768, lg |-> 992,
                        xl |-> 1200 ])

C17_Witness ==
  /\ call.fn = "mediaMinWidth" /\ call.key = "sm" /\ result # NoCall
  /\ call.breakpoints = [ xs |-> 0, sm |-> 576 ]
  /\ result.text = << "@media (min-width: ", 576, "px", ")" >>

\* The definitions in the order base, g1, ..., gn of a call of extend.
CompositionOrder(x, generators) ==
  LET RECURSIVE flat(_)
      flat(gs) == IF gs = << >> THEN << >> ELSE Head(gs) \o flat(Tail(gs))
  IN  x.generator \o flat(generators)

\* C18: x.extend(g1, ..., gn) composes base, g1, ..., gn in that order: for
\* every CSS property, the last definition in that order that targets it
\* and has one of its props in the bag determines the value, whatever the
\* order of the bag's keys; the original x keeps its generator.
C18_LastInCompositionWins ==
  (call.fn = "extend" /\ result # NoCall) =>
    LET order == CompositionOrder(call.x, call.generators)
        applies(i) == \E n \in DOMAIN order[i].prop :
                        HasKey(call.props, order[i].prop[n])
        targets(p) == { i \in DOMAIN order :
                          order[i].cssProperty = p /\ applies(i) }
        last(p) == CHOOSE i \in targets(p) : \A j \in targets(p) : j <= i
    IN  /\ result.x.generator = order
        /\ result.original = call.x
        /\ result.original.generator = backgrounds
        /\ DOMAIN result.style =
             { order[i].cssProperty : i \in { j \in DOMAIN order : applies(j) } }
        /\ \A p \in DOMAIN result.style :
             \E n \in DOMAIN order[last(p)].prop :
               /\ HasKey(call.props, order[last(p)].prop[n])
               /\ result.style[p] = ValueOf(call.props, order[last(p)].prop[n])

C18_Witness ==
  /\ call.fn = "extend" /\ call.generators = << tint >> /\ result # NoCall
  /\ call.props = << [ key |-> "tint", value |-> "blue" ],
                     [ key |-> "bg", value |-> "red" ] >>
  /\ result.style["backgroundColor"] = "blue"

\* The CSS property a spacing prop declares.
SpacingProperty(key) == IF key \in {"m", "margin"} THEN "margin" ELSE "padding"

\* C19: for every theme space token k with a positive value v, the value
\* '-k' of a spacing prop resolves to the length -v px; with the theme
\* { space: { md: 10 } }, margin '-md' gives margin: -10px.
C19_NegativeToken ==
  (call.fn = "Box" /\ result # NoCall) =>
    /\ \A i \in DOMAIN call.props :
         LET value == call.props[i].value
             declared == result.declarations[SpacingProperty(call.props[i].key)]
         IN  \A k \in {"sm", "md"} :
               ( /\ value.kind = "string" /\ value.text = << "-", k >>
                 /\ "space" \in DOMAIN call.theme
                 /\ k \in DOMAIN call.theme.space
                 /\ call.theme.space[k] > 0 )
                 => declared.text = << 0 - call.theme.space[k], "px" >>
    /\ ( /\ call.theme = [ space |-> [ md |-> 10 ] ]
         /\ call.props = << [ key |-> "margin",
                              value |-> Text(<< "-", "md" >>) ] >> )
         => result.declarations["margin"].text = << -10, "px" >>

C19_Witness ==
  /\ call.fn = "Box" /\ result # NoCall
  /\ call.theme = [ space |-> [ md |-> 10 ] ]
  /\ call.props = << [ key |-> "margin", value |-> Text(<< "-", "md" >>) ] >>
  /\ result.declarations = [ margin |-> String(<< -10, "px" >>) ]

\* C20: with the default scale a numeric spacing value n resolves to the
\* length 4*n px, in one block without media query, for the alias and for
\* the long prop name alike; 0 resolves to '0' and a negative n keeps its
\* sign; { m: 2, p: 1 } gives margin: 8px and padding: 4px.
C20_DefaultScale ==
  (call.fn = "Box" /\ result # NoCall) =>
    /\ result.media.isNull
    /\ \A i \in DOMAIN call.props :
         LET value == call.props[i].value
             declared == result.declarations[SpacingProperty(call.props[i].key)]
         IN  value.kind = "number" =>
               /\ value.n = 0 => declared.text = << "0" >>
               /\ value.n # 0 => declared.text = << 4 * value.n, "px" >>
               /\ value.n < 0 => declared.text[1] < 0
    /\ call.props = << [ key |-> "m", value |-> Number(2) ],
                       [ key |-> "p", value |-> Number(1) ] >>
         => result.declarations = [ margin |-> String(<< 8, "px" >>),
                                    padding |-> String(<< 4, "px" >>) ]
    /\ \A n \in -2..2 :
         call.props \in { << [ key |-> "m", value |-> Number(n) ] >>,
                          << [ key |-> "margin", value |-> Number(n) ] >> }
           => result.declarations =
                Box(call.theme,
                    << [ key |-> "margin", value |-> Number(n) ] >>).declarations

C20_Witness ==
  /\ call.fn = "Box" /\ result # NoCall
  /\ call.theme = [ colors |-> EmptyObject ]
  /\ call.props = << [ key |-> "m", value |-> Number(2) ],
                     [ key |-> "p", value |-> Number(1) ] >>
  /\ result.media.isNull
  /\ result.declarations = [ margin |-> String(<< 8, "px" >>),
                             padding |-> String(<< 4, "px" >>) ]

\* C21: with light and dark both declared and tracked, once the change
\* events of a system-preference change have all been delivered, in either
\* order, the tracked system mode is the mode whose media query matches.
C21_DeliveryOrderIndependent ==
  ( /\ mounted /\ pendingEvents = {} /\ lastEvent = "system"
    /\ ConfigModes(theme) = {"light", "dark"}
    /\ sysPref \in {"light", "dark"} )
    => nextSystemMode = sysPref

\* C22: when a change event reports that a tracked mode no longer matches
\* and no tracked mode matches, the handler resets the tracked system mode
\* to null, whatever system mode was tracked before the event.
C22_MismatchResetsToNull ==
  [][ \A e \in pendingEvents :
        ( /\ mounted /\ pendingEvents' = pendingEvents \ {e}
          /\ ~e.matches
          /\ sysPref \notin ConfigModes(theme) )
          => nextSystemMode' = Null ]_vars

\* C23: with custom properties enabled, in every settled state of the
\* mounted scope the target carries at most one color-mode class, and it
\* carries the class of the current mode exactly when the mode is non-null
\* and a value is persisted or the mode differs from the initial mode; once
\* the scope has unmounted the target carries no color-mode class.
C23_OneModeClass ==
  theme.useCustomProperties # "false" =>
    /\ Settled =>
         /\ Cardinality(classList) <= 1
         /\ getColorModeClassName(mode) \in classList <=>
              ( /\ mode # Null
                /\ \/ storageGet(isLocalStorageAvailable, localStorage) # Null
                   \/ mode # getInitialColorModeName(theme) )
    /\ (~mounted /\ lastEvent = "unmount") => classList = {}

C23_Witness ==
  /\ Settled /\ theme.useCustomProperties # "false"
  /\ lastEvent = "setMode" /\ lastExplicit = "light" /\ mode = "light"
  /\ getInitialColorModeName(theme) = "light"
  /\ localStorage = "light" /\ mounts = 2
  /\ classList = { << "xstyled-color-mode-", "light" >> }

\* C24: while the scope is mounted the theme it hands to ThemeProvider is
\* never null, for both strategies and in the render right after an
\* explicit setMode(null) too.
C24_PropagatedThemeNeverNull ==
  mounted => PropagatedTheme.kind # "null"

\* C25: for a theme that declares no color modes, mounting the scope never
\* fails, the resolved mode is null in every state of the mounted scope,
\* the scope adds no class to the target, and the theme handed to consumers
\* is the original theme.
C25_NoModesIsInert ==
  /\ call.fn = "ColorModeProvider" => result.error = Null
  /\ mounted =>
       /\ mode = Null
       /\ classCleanup = {}
       /\ classList = {}
       /\ PropagatedTheme =
            [ kind |-> "theme", colorMode |-> Null, colors |-> ThemeColors ]

\* C26: getBreakpointMax returns null for the largest breakpoint of the
\* table and, for every other breakpoint, the width of the next larger
\* breakpoint less 0.02px.
C26_MaxBelowNextMin ==
  (call.fn = "getBreakpointMax" /\ result # NoCall) =>
    LET table == call.breakpoints
        width == table[call.key]
        larger == { table[k] : k \in DOMAIN table } \ 0..width
        next == CHOOSE w \in larger : \A v \in larger : w <= v
    IN  IF larger = {} THEN result.max.isNull
        ELSE /\ ~result.max.isNull
             /\ result.max.text =
                  << [ units |-> next - 1, hundredths |-> 98 ], "px" >>

====
